---- MODULE Spec2Model ----
(***************************************************************************)
(* Privacy Glasses (src/main.ts): the visibility level, the per-panel      *)
(* reveal policy, the setState hook around panel switches, the idle lock.  *)
(*                                                                         *)
(* Strings that the code only compares for equality or emptiness (tags,    *)
(* the private-note marker, css classes, levels) are TLA+ strings.         *)
(* Strings whose characters the code inspects (settings.privateDirs and a  *)
(* file's parent path, line 310) are sequences of one-character strings.   *)
(* Styling that no level, marking or hook depends on is not part of the    *)
(* state: the two injected <style> elements, settings.blurLevel and the    *)
(* per-panel classes is-md-view / is-non-md-view / is-md-view-headlines-   *)
(* only.                                                                   *)
(***************************************************************************)
EXTENDS Integers, Sequences, FiniteSets, TLC

VARIABLES
    phase,          \* plugin lifecycle: "constructed", "loaded", "ready", "unloaded"
    settings,       \* this.settings (PrivacyGlassesSettings)
    currentLevel,   \* this.currentLevel ("undefined" until it is first assigned)
    lastEventTime,  \* this.lastEventTime, in ms (0 = undefined)
    now,            \* performance.now(), in ms
    status,         \* per panel: "unborn", "open" (a leaf of the workspace), "closed"
    view,           \* per panel: the View object's file, editor and cached metadata
    layers,         \* per panel: 1 iff the view has an own property setState (the wrapper)
    installs,       \* per panel: how many times hookViewStateChanged ran on it
    marked,         \* per panel: containerEl has class privacy-glasses-reveal
    revealed,       \* this.revealed: per panel, how many times its containerEl is in the array
    bodyClasses,    \* classes of document.body among the five the plugin manages
    calling,        \* 0, or the panel whose wrapper is inside original.apply (line 43)
    pending,        \* per panel: unsettled promises returned by its wrapped setState
    timers,         \* pending setTimeout(updateLeavesStyle, 200) callbacks
    saving,         \* settings-tab onChange handlers suspended at await saveSettings()
    last            \* what the last callback did (history, for stating the claims)

vars == << phase, settings, currentLevel, lastEventTime, now, status,
           view, layers, installs, marked, revealed, bodyClasses,
           calling, pending, timers, saving, last >>

---------------------------------------------------------------------------
(* Bounds of the model *)

NumPanels == 2
\* this.revealed never shrinks: multiplicities above MaxRevealed are not told apart
MaxRevealed == 2
\* switches that are unsettled or whose deferred recomputation has not run yet
MaxOutstanding == 2
\* the clock runs from TickMs to MaxClock * TickMs
MaxClock == 3

Panels == 1..NumPanels

---------------------------------------------------------------------------
(* enum Level, enum CssClass *)

HideAll == "hide-all"
HidePrivate == "hide-private"
RevealAll == "reveal-all"
RevealHeadlines == "reveal-headlines"
Level == {HideAll, HidePrivate, RevealAll, RevealHeadlines}
Undefined == "undefined"

BlurAll == "privacy-glasses-blur-all"
RevealOnHover == "privacy-glasses-reveal-on-hover"
CssRevealAll == "privacy-glasses-reveal-all"
RevealUnderCaret == "privacy-glasses-reveal-under-caret"
CssRevealHeadlines == "privacy-glasses-reveal-headlines"

---------------------------------------------------------------------------
(* Strings as character sequences *)

EmptyStr == << >>

\* String.prototype.contains (Obsidian's alias of includes): substring test
contains(s, sub) ==
    \E i \in 0..(Len(s) - Len(sub)) : SubSeq(s, i + 1, i + Len(sub)) = sub

\* String.prototype.startsWith
startsWith(s, prefix) ==
    /\ Len(prefix) <= Len(s)
    /\ SubSeq(s, 1, Len(prefix)) = prefix

\* String.prototype.split(","): the pieces between the commas
RECURSIVE split(_)
split(s) ==
    IF \A i \in 1..Len(s) : s[i] # ","
    THEN << s >>
    ELSE LET k == CHOOSE i \in 1..Len(s) :
                      s[i] = "," /\ \A j \in 1..(i - 1) : s[j] # ","
         IN  << SubSeq(s, 1, k - 1) >> \o split(SubSeq(s, k + 1, Len(s)))

---------------------------------------------------------------------------
(* Views and the host's metadata cache *)

\* Tags are compared with the marker only; "" is a tag the filters drop.
TagLists == { << >>, << "#private" >>, << "x" >>, << "x", "#private" >>, << "" >> }

ParentPaths == { << "t" >>, << "t", "/", "n" >>, << "w", "/", "n" >> }

\* A view without an own property "file" (a side panel, the empty tab, ...).
\* file: "none" = no own property, "null" = property holding null, "file" = a TFile.
\* cached: getFileCache(file) is not null; hasTags: the record has a "tags" key;
\* frontmatter: "absent" (no key), "notags" (no tags in it), "list" (a tags array).
PlainView ==
    [ file |-> "none", parent |-> EmptyStr, editor |-> FALSE, cached |-> FALSE,
      hasTags |-> FALSE, tags |-> << >>, frontmatter |-> "absent", fmTags |-> << >> ]

FileViews ==
    { [ PlainView EXCEPT !.file = "null" ] } \cup
    { [ PlainView EXCEPT !.file = "file", !.parent = d ] : d \in ParentPaths }

MarkdownViews ==
    { [ PlainView EXCEPT !.file = "file", !.parent = d, !.editor = TRUE ] :
          d \in ParentPaths } \cup
    { [ file |-> "file", parent |-> d, editor |-> TRUE, cached |-> TRUE,
        hasTags |-> FALSE, tags |-> << >>, frontmatter |-> fm, fmTags |-> << >> ] :
          d \in ParentPaths, fm \in {"absent", "notags"} } \cup
    { [ file |-> "file", parent |-> d, editor |-> TRUE, cached |-> TRUE,
        hasTags |-> TRUE, tags |-> t, frontmatter |-> fm, fmTags |-> << >> ] :
          d \in ParentPaths, t \in TagLists, fm \in {"absent", "notags"} } \cup
    { [ file |-> "file", parent |-> d, editor |-> TRUE, cached |-> TRUE,
        hasTags |-> FALSE, tags |-> << >>, frontmatter |-> fm, fmTags |-> ft ] :
          d \in ParentPaths, fm \in {"list"}, ft \in TagLists } \cup
    { [ file |-> "file", parent |-> d, editor |-> TRUE, cached |-> TRUE,
        hasTags |-> TRUE, tags |-> t, frontmatter |-> "list", fmTags |-> ft ] :
          d \in ParentPaths, t \in TagLists, ft \in TagLists }

AllViews == { PlainView } \cup FileViews \cup MarkdownViews

isMarkdownFileInfoView(x) == x.file # "none"

\* Array.prototype.filter(x => !!x): the non-empty entries, in order
RECURSIVE filterTruthy(_)
filterTruthy(a) ==
    IF a = << >> THEN << >>
    ELSE (IF Head(a) # "" THEN << Head(a) >> ELSE << >>) \o filterTruthy(Tail(a))

includes(a, x) == \E i \in 1..Len(a) : a[i] = x

---------------------------------------------------------------------------
(* shouldRevealLeaf: the result is a value or a TypeError *)

Returns(b) == [ threw |-> FALSE, value |-> b ]
Throws == [ threw |-> TRUE, value |-> FALSE ]

\* lines 294-302: the tags the code collects; threw when an access fails
collectTags(v) ==
    IF ~v.cached THEN [ threw |-> TRUE, tags |-> << >> ]            \* 'tags' in null
    ELSE IF v.frontmatter = "absent"
         THEN [ threw |-> TRUE, tags |-> << >> ]                    \* 'tags' in undefined
    ELSE [ threw |-> FALSE,
           tags |-> (IF v.hasTags THEN filterTruthy(v.tags) ELSE << >>)
                    \o (IF v.frontmatter = "list" THEN filterTruthy(v.fmTags) ELSE << >>) ]

\* lines 308-315: the directory rule
dirRule(privateDirs, v) ==
    IF v.file = "file" /\ ~contains(privateDirs, v.parent)
    THEN Returns(TRUE)
    ELSE Returns(FALSE)

\* a variant without the check for panels that are not document panels
shouldRevealLeafNoKindCheck(level, s, v) ==
    IF level = RevealAll THEN Returns(TRUE)
    ELSE IF level = HideAll \/ level = RevealHeadlines THEN Returns(FALSE)
    ELSE dirRule(s.privateDirs, v)

\* a variant that forgets that RevealHeadlines hides every body
shouldRevealLeafHeadlinesFallThrough(level, s, v) ==
    IF level = RevealAll THEN Returns(TRUE)
    ELSE IF level = HideAll THEN Returns(FALSE)
    ELSE IF ~isMarkdownFileInfoView(v) THEN Returns(TRUE)
    ELSE dirRule(s.privateDirs, v)

shouldRevealLeaf(level, s, v) ==
    IF level = RevealAll THEN Returns(TRUE)
    ELSE IF level = HideAll \/ level = RevealHeadlines THEN Returns(FALSE)
    ELSE IF ~isMarkdownFileInfoView(v) THEN Returns(TRUE)
    ELSE IF v.editor /\ s.privateNoteMarker # ""
         THEN LET t == collectTags(v)
              IN  IF t.threw THEN Throws
                  ELSE IF Len(t.tags) > 0
                       THEN Returns(~includes(t.tags, s.privateNoteMarker))
                       ELSE dirRule(s.privateDirs, v)
         ELSE dirRule(s.privateDirs, v)

---------------------------------------------------------------------------
(* Settings *)

DEFAULT_SETTINGS ==
    [ blurOnStartup |-> HidePrivate,
      blurOnIdleTimeoutSeconds |-> -1,
      hoverToReveal |-> TRUE,
      revealUnderCaret |-> FALSE,
      privateDirs |-> EmptyStr,
      privateNoteMarker |-> "#private" ]

\* Values the settings tab (and the stored data) supply in the model
StartupValues == { HidePrivate, RevealAll }
TimeoutValues == { -1, 0, 1, 2 }
DirsValues == { EmptyStr, << "t" >> }
MarkerValues == { "", "#private" }

\* DEFAULT_SETTINGS with what loadData() returns assigned over it:
\* nothing stored, or an earlier session's idle timeout and startup level
StoredData ==
    { DEFAULT_SETTINGS,
      [ DEFAULT_SETTINGS EXCEPT !.blurOnStartup = RevealAll,
                                !.blurOnIdleTimeoutSeconds = 1 ] }

---------------------------------------------------------------------------
(* The panels' style state and the operations that recompute it.           *)
(* A style state is [marked, revealed, threw]: the operations              *)
(* below take one and return the one they leave; threw = a TypeError       *)
(* escaped, which ends the calling handler.                                *)

Style == [ marked |-> marked, revealed |-> revealed, threw |-> FALSE ]

Min(a, b) == IF a < b THEN a ELSE b

\* a variant that does not record the element
pushNothing(r, p) == r

\* this.revealed.push(el)
push(r, p) == [ r EXCEPT ![p] = Min(@ + 1, MaxRevealed) ]

\* lines 332-338 (lines 319-330 set the per-panel kind class, not modelled)
updateLeafViewStyle(st, p, level, s, v) ==
    LET shouldReveal == shouldRevealLeaf(level, s, v)
    IN  IF shouldReveal.threw THEN [ st EXCEPT !.threw = TRUE ]
        ELSE IF shouldReveal.value
             THEN [ st EXCEPT !.marked[p] = TRUE, !.revealed = push(@, p) ]
             ELSE [ st EXCEPT !.marked[p] = FALSE ]

\* lines 346-350: iterateAllLeaves, in the workspace's order; an exception ends it
RECURSIVE iterateLeavesStyle(_, _, _, _, _, _)
iterateLeavesStyle(st, p, level, s, vw, stat) ==
    IF p > NumPanels \/ st.threw THEN st
    ELSE iterateLeavesStyle(
             IF stat[p] = "open" THEN updateLeafViewStyle(st, p, level, s, vw[p]) ELSE st,
             p + 1, level, s, vw, stat)

updateLeavesStyle(st, level, s, vw, stat) ==
    iterateLeavesStyle(st, 1, level, s, vw, stat)

\* lines 364-372
removeAllClasses(body) ==
    body \ { BlurAll, RevealOnHover, CssRevealAll, RevealUnderCaret, CssRevealHeadlines }

\* lines 374-386
setClassToDocumentBody(body, level) ==
    IF level = HideAll THEN body \cup { BlurAll }
    ELSE IF level = RevealAll THEN body \cup { CssRevealAll }
    ELSE IF level = RevealHeadlines THEN body \cup { CssRevealHeadlines }
    ELSE body

\* lines 352-362
updateGlobalRevealStyle(body, level, s) ==
    setClassToDocumentBody(removeAllClasses(body), level)
        \cup (IF s.hoverToReveal THEN { RevealOnHover } ELSE {})
        \cup (IF s.revealUnderCaret THEN { RevealUnderCaret } ELSE {})

\* a variant that clears the marking of the first panel only
onBeforeViewStateChangeFirstOnly(st) ==
    [ st EXCEPT !.marked =
          [ p \in Panels |-> IF p = 1 /\ st.revealed[p] > 0 THEN FALSE ELSE st.marked[p] ] ]

\* lines 194-198: onBeforeViewStateChange
onBeforeViewStateChange(st) ==
    [ st EXCEPT !.marked =
          [ p \in Panels |-> IF st.revealed[p] > 0 THEN FALSE ELSE st.marked[p] ] ]

\* a variant whose probe never finds the wrapper
isHookedNever(l) == FALSE

\* lines 24-30: the view has an own property setState
isHooked(l) == l >= 1

\* lines 32-57: anyView.setState = wrapper.bind(view), around __proto__.setState
hookViewStateChanged(l) == 1

\* lines 208-224: layers and installs after the pass
ensureLeavesHooked(lay, inst, stat) ==
    [ layers |-> [ p \in Panels |->
                     IF stat[p] = "open" /\ ~isHooked(lay[p])
                     THEN hookViewStateChanged(lay[p]) ELSE lay[p] ],
      installs |-> [ p \in Panels |->
                     IF stat[p] = "open" /\ ~isHooked(lay[p])
                     THEN inst[p] + 1 ELSE inst[p] ] ]

\* what a callback leaves in `last`
Did(op, arg, threw, befores, afters) ==
    [ op |-> op, arg |-> arg, threw |-> threw, befores |-> befores, afters |-> afters ]

\* a step of the host in which no callback of the plugin runs
Host == Did("host", "", FALSE, 0, 0)

\* writes a style state back
SetStyle(st) ==
    /\ marked' = st.marked
    /\ revealed' = st.revealed

\* lines 341-344: the style state and the body classes it leaves
updateLeavesAndGlobalReveals(st, body, level, s, vw, stat) ==
    LET st1 == updateLeavesStyle(st, level, s, vw, stat)
    IN  [ style |-> st1,
          body |-> IF st1.threw THEN body ELSE updateGlobalRevealStyle(body, level, s) ]

\* lines 44-50: how often the wrapper calls onAfterStateChange when original
\* returns r ("value": not a thenable, "promise": a thenable), and when the
\* promise settles
afterOnReturn(r) == IF r = "value" THEN 1 ELSE 0
afterOnSettle(result) == IF result = "fulfilled" THEN 1 ELSE 0

RECURSIVE SumTo(_, _)
SumTo(f, n) == IF n = 0 THEN 0 ELSE f[n] + SumTo(f, n - 1)

\* switches begun whose deferred recomputation has not run yet
Outstanding == timers + SumTo(pending, NumPanels) + (IF calling # 0 THEN 1 ELSE 0)

---------------------------------------------------------------------------
(* The documents the panels of the state machine show *)

DocNote ==
    [ file |-> "file", parent |-> << "w", "/", "n" >>, editor |-> TRUE, cached |-> TRUE,
      hasTags |-> FALSE, tags |-> << >>, frontmatter |-> "notags", fmTags |-> << >> ]
DocTagged ==
    [ DocNote EXCEPT !.hasTags = TRUE, !.tags = << "#private" >> ]
DocBare ==
    [ DocNote EXCEPT !.parent = << "t" >>, !.frontmatter = "absent" ]
Documents == { DocNote, DocTagged, DocBare }

---------------------------------------------------------------------------
(* The state machine *)

TickMs == 1000
MsPerSecond == 1000

Init ==
    /\ phase = "constructed"
    /\ settings = DEFAULT_SETTINGS
    /\ currentLevel = Undefined
    /\ lastEventTime = 0
    /\ now = TickMs
    /\ status = [ p \in Panels |-> "unborn" ]
    /\ view = [ p \in Panels |-> PlainView ]
    /\ layers = [ p \in Panels |-> 0 ]
    /\ installs = [ p \in Panels |-> 0 ]
    /\ marked = [ p \in Panels |-> FALSE ]
    /\ revealed = [ p \in Panels |-> 0 ]
    /\ bodyClasses = {}
    /\ calling = 0
    /\ pending = [ p \in Panels |-> 0 ]
    /\ timers = 0
    /\ saving = {}
    /\ last = Did("init", "", FALSE, 0, 0)

\* onload has run and onunload has not: events and the interval are registered
Loaded == phase \in { "loaded", "ready" }
\* the workspace is laid out: the user can reach the ribbon, the commands and
\* the settings tab
Ready == phase = "ready"

\* lines 97-190, up to the layout-ready callback; stored = DEFAULT_SETTINGS
\* with what loadData() returns assigned over it (line 266)
onload(stored) ==
    /\ phase = "constructed"
    /\ calling = 0
    /\ settings' = stored
    /\ lastEventTime' = now
    /\ phase' = "loaded"
    /\ last' = Did("onload", "", FALSE, 0, 0)
    /\ UNCHANGED << currentLevel, now, status, view, layers, installs, marked,
                    revealed, bodyClasses, calling, pending, timers, saving >>

\* lines 168-174
onLayoutReady ==
    /\ phase = "loaded"
    /\ calling = 0
    /\ LET level == settings.blurOnStartup
           r == updateLeavesAndGlobalReveals(Style, bodyClasses, level, settings, view, status)
           h == ensureLeavesHooked(layers, installs, status)
       IN  /\ currentLevel' = level
           /\ SetStyle(r.style)
           /\ bodyClasses' = r.body
           /\ layers' = IF r.style.threw THEN layers ELSE h.layers
           /\ installs' = IF r.style.threw THEN installs ELSE h.installs
           /\ last' = Did("onLayoutReady", level, r.style.threw, 0, 0)
    /\ phase' = "ready"
    /\ UNCHANGED << settings, lastEventTime, now, status, view, calling, pending,
                    timers, saving >>

\* lines 109-160: the four ribbon icons and the four commands
setLevel(level) ==
    /\ Ready
    /\ calling = 0
    /\ LET r == updateLeavesAndGlobalReveals(Style, bodyClasses, level, settings, view, status)
       IN  /\ currentLevel' = level
           /\ SetStyle(r.style)
           /\ bodyClasses' = r.body
           /\ last' = Did("setLevel", level, r.style.threw, 0, 0)
    /\ UNCHANGED << phase, settings, lastEventTime, now, status, view, layers, installs,
                    calling, pending, timers, saving >>

\* a variant with an exclusive boundary
idleLocksStrict(s, level, lastEvent, t) ==
    /\ ~(s.blurOnIdleTimeoutSeconds < 0)
    /\ ~(level = HideAll)
    /\ ~(lastEvent = 0)
    /\ (t - lastEvent) > s.blurOnIdleTimeoutSeconds * MsPerSecond

\* a variant that does not return early when the timeout is negative
idleLocksNegative(s, level, lastEvent, t) ==
    /\ ~(level = HideAll)
    /\ ~(lastEvent = 0)
    /\ (t - lastEvent) >= s.blurOnIdleTimeoutSeconds * MsPerSecond

\* lines 237-254: whether the tick locks. (now - last) / 1000 >= timeout is
\* stated as (now - last) >= timeout * 1000
idleLocks(s, level, lastEvent, t) ==
    /\ ~(s.blurOnIdleTimeoutSeconds < 0)
    /\ ~(level = HideAll)
    /\ ~(lastEvent = 0)
    /\ (t - lastEvent) >= s.blurOnIdleTimeoutSeconds * MsPerSecond

checkIdleTimeout ==
    /\ Loaded
    /\ calling = 0
    /\ IF idleLocks(settings, currentLevel, lastEventTime, now)
       THEN LET r == updateLeavesAndGlobalReveals(Style, bodyClasses, HideAll, settings,
                                                  view, status)
            IN  /\ currentLevel' = HideAll
                /\ SetStyle(r.style)
                /\ bodyClasses' = r.body
                /\ last' = Did("checkIdleTimeout", "lock", r.style.threw, 0, 0)
       ELSE /\ UNCHANGED << currentLevel, marked, revealed, bodyClasses >>
            /\ last' = Did("checkIdleTimeout", "noop", FALSE, 0, 0)
    /\ UNCHANGED << phase, settings, lastEventTime, now, status, view, layers, installs,
                    calling, pending, timers, saving >>

\* a variant in which a pointer or key press ends a lock
activityUnlocks ==
    /\ phase = "ready"
    /\ calling = 0
    /\ lastEventTime' = now
    /\ currentLevel' = IF currentLevel = HideAll THEN settings.blurOnStartup ELSE currentLevel
    /\ last' = Did("activity", "", FALSE, 0, 0)
    /\ UNCHANGED << phase, settings, now, status, view, layers, installs,
                    marked, revealed, bodyClasses, calling, pending, timers,
                    saving >>

\* lines 226-232: mousedown / keydown, registered by the layout-ready callback
activity ==
    /\ phase = "ready"
    /\ calling = 0
    /\ lastEventTime' = now
    /\ last' = Did("activity", "", FALSE, 0, 0)
    /\ UNCHANGED << phase, settings, currentLevel, now, status, view, layers, installs,
                    marked, revealed, bodyClasses, calling, pending, timers,
                    saving >>

\* performance.now() moves on (observed while the interval is registered)
clock ==
    /\ Loaded
    /\ calling = 0
    /\ now < MaxClock * TickMs
    /\ now' = now + TickMs
    /\ last' = Host
    /\ UNCHANGED << phase, settings, currentLevel, lastEventTime, status, view, layers,
                    installs, marked, revealed, bodyClasses, calling, pending,
                    timers, saving >>

\* lines 260-263
onunload ==
    /\ Loaded
    /\ calling = 0
    /\ phase' = "unloaded"
    /\ last' = Did("onunload", "", FALSE, 0, 0)
    /\ UNCHANGED << settings, currentLevel, lastEventTime, now, status, view, layers,
                    installs, marked, revealed, bodyClasses, calling, pending,
                    timers, saving >>

---------------------------------------------------------------------------
(* The host: panels come and go, documents change *)

\* the host opens a leaf with a fresh view (panels are numbered as they open)
openLeaf(p, v) ==
    /\ calling = 0
    /\ status[p] = "unborn"
    /\ \A q \in Panels : q < p => status[q] # "unborn"
    /\ status' = [ status EXCEPT ![p] = "open" ]
    /\ view' = [ view EXCEPT ![p] = v ]
    /\ last' = Host
    /\ UNCHANGED << phase, settings, currentLevel, lastEventTime, now, layers, installs,
                    marked, revealed, bodyClasses, calling, pending, timers,
                    saving >>

\* the host closes a leaf and releases its view: iterateAllLeaves no longer visits it
closeLeaf(p) ==
    /\ calling = 0
    /\ status[p] = "open"
    /\ status' = [ status EXCEPT ![p] = "closed" ]
    /\ view' = [ view EXCEPT ![p] = PlainView ]
    /\ last' = Host
    /\ UNCHANGED << phase, settings, currentLevel, lastEventTime, now, layers,
                    installs, marked, revealed, bodyClasses, calling, pending,
                    timers, saving >>

\* the panel's document changes and no callback of the plugin runs: the user
\* edits the note's tags or frontmatter or moves the file, or setState runs on
\* a view that has no wrapper
contentChanged(p, v) ==
    /\ calling = 0
    /\ status[p] = "open"
    /\ v # view[p]
    /\ view' = [ view EXCEPT ![p] = v ]
    /\ last' = Host
    /\ UNCHANGED << phase, settings, currentLevel, lastEventTime, now, status, layers,
                    installs, marked, revealed, bodyClasses, calling, pending,
                    timers, saving >>

\* lines 182-187: the active-leaf-change handler
activeLeafChange(p) ==
    /\ Loaded
    /\ calling = 0
    /\ status[p] = "open"
    /\ LET h == ensureLeavesHooked(layers, installs, status)
           st == updateLeafViewStyle(Style, p, currentLevel, settings, view[p])
       IN  /\ layers' = h.layers
           /\ installs' = h.installs
           /\ SetStyle(st)
           /\ last' = Did("activeLeafChange", "", st.threw, 0, 0)
    /\ UNCHANGED << phase, settings, currentLevel, lastEventTime, now, status, view,
                    bodyClasses, calling, pending, timers, saving >>

---------------------------------------------------------------------------
(* The hook around setState *)

\* lines 41-43: the wrapper runs the before-callback (once per wrapping layer)
\* and enters the original setState
wrapperEnter(p) ==
    /\ calling = 0
    /\ status[p] = "open"
    /\ layers[p] > 0
    /\ Outstanding < MaxOutstanding
    /\ SetStyle(onBeforeViewStateChange(Style))
    /\ calling' = p
    /\ last' = Did("wrapperEnter", "", FALSE, layers[p], 0)
    /\ UNCHANGED << phase, settings, currentLevel, lastEventTime, now, status, view,
                    layers, installs, bodyClasses, pending, timers, saving >>

\* lines 200-206: onAfterViewStateChange, n times
afterCallbacks(n) ==
    LET h == ensureLeavesHooked(layers, installs, status)
    IN  /\ timers' = timers + n
        /\ layers' = IF n > 0 THEN h.layers ELSE layers
        /\ installs' = IF n > 0 THEN h.installs ELSE installs

\* lines 43-51: the original returns r or throws, and the wrapper goes on.
\* "value": a result that is not a thenable; "undefined": no result (r.then
\* is then a TypeError of the wrapper's own); "throw": the original throws;
\* "promise": a thenable, still unsettled
wrapperResume(outcome, v) ==
    /\ calling # 0
    /\ view' = IF outcome \in { "value", "undefined" }
               THEN [ view EXCEPT ![calling] = v ] ELSE view
    /\ pending' = IF outcome = "promise"
                  THEN [ pending EXCEPT ![calling] = @ + 1 ] ELSE pending
    /\ afterCallbacks(IF outcome \in { "value", "promise" } THEN afterOnReturn(outcome) ELSE 0)
    /\ calling' = 0
    /\ last' = Did("wrapperResume", outcome, outcome \in { "undefined", "throw" },
                   0, IF outcome \in { "value", "promise" } THEN afterOnReturn(outcome) ELSE 0)
    /\ UNCHANGED << phase, settings, currentLevel, lastEventTime, now, status, marked,
                    revealed, bodyClasses, saving >>

\* lines 45-47: the promise settles; then() runs its callback on fulfilment
settle(p, result, v) ==
    /\ calling = 0
    /\ pending[p] > 0
    /\ pending' = [ pending EXCEPT ![p] = @ - 1 ]
    /\ view' = IF result = "fulfilled" /\ status[p] = "open"
               THEN [ view EXCEPT ![p] = v ] ELSE view
    /\ afterCallbacks(afterOnSettle(result))
    /\ last' = Did("settle", result, FALSE, 0, afterOnSettle(result))
    /\ UNCHANGED << phase, settings, currentLevel, lastEventTime, now, status, marked,
                    revealed, bodyClasses, calling, saving >>

\* lines 202-204: the deferred recomputation
timerFires ==
    /\ calling = 0
    /\ timers > 0
    /\ timers' = timers - 1
    /\ LET st == updateLeavesStyle(Style, currentLevel, settings, view, status)
       IN  /\ SetStyle(st)
           /\ last' = Did("timerFires", "", st.threw, 0, 0)
    /\ UNCHANGED << phase, settings, currentLevel, lastEventTime, now, status, view,
                    layers, installs, bodyClasses, calling, pending, saving >>

---------------------------------------------------------------------------
(* The settings tab *)

\* lines 485-488 and 503-510: the value is stored and saved
setBlurOnStartup(v) ==
    /\ Ready
    /\ calling = 0
    /\ v # settings.blurOnStartup
    /\ settings' = [ settings EXCEPT !.blurOnStartup = v ]
    /\ last' = Did("setBlurOnStartup", "", FALSE, 0, 0)
    /\ UNCHANGED << phase, currentLevel, lastEventTime, now, status, view, layers,
                    installs, marked, revealed, bodyClasses, calling, pending,
                    timers, saving >>

setIdleTimeout(v) ==
    /\ Ready
    /\ calling = 0
    /\ v # settings.blurOnIdleTimeoutSeconds
    /\ settings' = [ settings EXCEPT !.blurOnIdleTimeoutSeconds = v ]
    /\ last' = Did("setIdleTimeout", "", FALSE, 0, 0)
    /\ UNCHANGED << phase, currentLevel, lastEventTime, now, status, view, layers,
                    installs, marked, revealed, bodyClasses, calling, pending,
                    timers, saving >>

\* lines 520-524
setHoverToReveal(v) ==
    /\ Ready
    /\ calling = 0
    /\ v # settings.hoverToReveal
    /\ LET s == [ settings EXCEPT !.hoverToReveal = v ]
           r == updateLeavesAndGlobalReveals(Style, bodyClasses, currentLevel, s, view, status)
       IN  /\ settings' = s
           /\ SetStyle(r.style)
           /\ bodyClasses' = r.body
           /\ last' = Did("setHoverToReveal", "", r.style.threw, 0, 0)
    /\ UNCHANGED << phase, currentLevel, lastEventTime, now, status, view, layers,
                    installs, calling, pending, timers, saving >>

\* lines 534-538
setRevealUnderCaret(v) ==
    /\ Ready
    /\ calling = 0
    /\ v # settings.revealUnderCaret
    /\ LET s == [ settings EXCEPT !.revealUnderCaret = v ]
       IN  /\ settings' = s
           /\ bodyClasses' = updateGlobalRevealStyle(bodyClasses, currentLevel, s)
    /\ last' = Did("setRevealUnderCaret", "", FALSE, 0, 0)
    /\ UNCHANGED << phase, currentLevel, lastEventTime, now, status, view, layers,
                    installs, marked, revealed, calling, pending, timers,
                    saving >>

\* lines 570-572 and 585-587: the value is stored; the handler waits for the save
setPrivateDirs(v) ==
    /\ Ready
    /\ calling = 0
    /\ v # settings.privateDirs
    /\ "privateDirs" \notin saving
    /\ settings' = [ settings EXCEPT !.privateDirs = v ]
    /\ saving' = saving \cup { "privateDirs" }
    /\ last' = Did("setPrivateDirs", "", FALSE, 0, 0)
    /\ UNCHANGED << phase, currentLevel, lastEventTime, now, status, view, layers,
                    installs, marked, revealed, bodyClasses, calling, pending,
                    timers >>

setPrivateNoteMarker(v) ==
    /\ Ready
    /\ calling = 0
    /\ v # settings.privateNoteMarker
    /\ "privateNoteMarker" \notin saving
    /\ settings' = [ settings EXCEPT !.privateNoteMarker = v ]
    /\ saving' = saving \cup { "privateNoteMarker" }
    /\ last' = Did("setPrivateNoteMarker", "", FALSE, 0, 0)
    /\ UNCHANGED << phase, currentLevel, lastEventTime, now, status, view, layers,
                    installs, marked, revealed, bodyClasses, calling, pending,
                    timers >>

\* lines 573-574: after the save, updateLeavesAndGlobalReveals
privateDirsSaved ==
    /\ calling = 0
    /\ "privateDirs" \in saving
    /\ saving' = saving \ { "privateDirs" }
    /\ LET r == updateLeavesAndGlobalReveals(Style, bodyClasses, currentLevel, settings,
                                             view, status)
       IN  /\ SetStyle(r.style)
           /\ bodyClasses' = r.body
           /\ last' = Did("privateDirsSaved", "", r.style.threw, 0, 0)
    /\ UNCHANGED << phase, settings, currentLevel, lastEventTime, now, status, view,
                    layers, installs, calling, pending, timers >>

\* line 588: after the save, updateLeavesStyle
privateNoteMarkerSaved ==
    /\ calling = 0
    /\ "privateNoteMarker" \in saving
    /\ saving' = saving \ { "privateNoteMarker" }
    /\ LET st == updateLeavesStyle(Style, currentLevel, settings, view, status)
       IN  /\ SetStyle(st)
           /\ last' = Did("privateNoteMarkerSaved", "", st.threw, 0, 0)
    /\ UNCHANGED << phase, settings, currentLevel, lastEventTime, now, status, view,
                    layers, installs, bodyClasses, calling, pending, timers >>

---------------------------------------------------------------------------

Outcomes == { "value", "undefined", "throw", "promise" }

Next ==
    \/ onload(DEFAULT_SETTINGS)
    \/ onLayoutReady
    \/ \E level \in Level : setLevel(level)
    \/ onunload
    \/ \E p \in Panels, v \in Documents : openLeaf(p, v)
    \/ \E p \in Panels : closeLeaf(p)
    \/ \E p \in Panels, v \in Documents : contentChanged(p, v)
    \/ \E p \in Panels : activeLeafChange(p)
    \/ \E p \in Panels : wrapperEnter(p)
    \/ \E outcome \in Outcomes, v \in Documents : wrapperResume(outcome, v)
    \/ \E p \in Panels, result \in { "fulfilled", "rejected" }, v \in Documents :
           settle(p, result, v)
    \/ timerFires

\* The panels, the hook and the level commands, under the default settings
Spec == Init /\ [][Next]_vars

---------------------------------------------------------------------------
(* The hook alone: panels open, close and are activated, and switches run  *)
(* through the wrappers, with one document and no level command            *)

NextHook ==
    \/ onload(DEFAULT_SETTINGS)
    \/ onLayoutReady
    \/ onunload
    \/ \E p \in Panels : openLeaf(p, DocNote)
    \/ \E p \in Panels : closeLeaf(p)
    \/ \E p \in Panels : activeLeafChange(p)
    \/ \E p \in Panels : wrapperEnter(p)
    \/ \E outcome \in Outcomes : wrapperResume(outcome, DocNote)
    \/ \E p \in Panels, result \in { "fulfilled", "rejected" } : settle(p, result, DocNote)
    \/ timerFires

SpecHook == Init /\ [][NextHook]_vars

---------------------------------------------------------------------------
(* The hook under the scheduling the host gives: a call of the original    *)
(* returns; a promise settles and a timer that has been set fires once no  *)
(* call is on the stack, however often switches are begun in between       *)

SpecHookFair ==
    /\ SpecHook
    /\ SF_vars(timerFires)
    /\ WF_vars(\E outcome \in Outcomes : wrapperResume(outcome, DocNote))
    /\ SF_vars(\E p \in Panels, result \in { "fulfilled", "rejected" } :
                   settle(p, result, DocNote))

---------------------------------------------------------------------------
(* The level and everything that runs beside it: commands, the idle        *)
(* monitor, switches on one panel, and the settings tab's dropdown, number *)
(* field and toggles                                                       *)

\* idle timeouts the settings tab supplies here: disabled, or one second
LevelTimeouts == { -1, 1 }

NextLevel ==
    \/ \E stored \in StoredData : onload(stored)
    \/ onLayoutReady
    \/ \E level \in Level : setLevel(level)
    \/ checkIdleTimeout
    \/ activity
    \/ clock
    \/ onunload
    \/ openLeaf(1, DocNote)
    \/ activeLeafChange(1)
    \/ wrapperEnter(1)
    \/ \E outcome \in Outcomes : wrapperResume(outcome, DocNote)
    \/ \E result \in { "fulfilled", "rejected" } : settle(1, result, DocNote)
    \/ timerFires
    \/ \E v \in StartupValues : setBlurOnStartup(v)
    \/ \E v \in LevelTimeouts : setIdleTimeout(v)
    \/ \E v \in BOOLEAN : setHoverToReveal(v)
    \/ \E v \in BOOLEAN : setRevealUnderCaret(v)

SpecLevel == Init /\ [][NextLevel]_vars

---------------------------------------------------------------------------
(* The idle monitor: the clock, activity events, the 1-second tick and the *)
(* settings it reads, with one panel to recompute                          *)

NextIdle ==
    \/ \E stored \in StoredData : onload(stored)
    \/ onLayoutReady
    \/ \E level \in Level : setLevel(level)
    \/ checkIdleTimeout
    \/ activity
    \/ clock
    \/ onunload
    \/ \E v \in Documents : openLeaf(1, v)
    \/ activeLeafChange(1)
    \/ \E v \in TimeoutValues : setIdleTimeout(v)

SpecIdle == Init /\ [][NextIdle]_vars

---------------------------------------------------------------------------
(* The policy alone: any level, marker, private directories and view; the  *)
(* panel has just been opened and the active-leaf-change handler styles it *)

PolicyDirs == { EmptyStr, << "t" >>, << "f", ",", "t" >> }

InitPolicy ==
    /\ phase = "ready"
    /\ \E m \in MarkerValues, d \in PolicyDirs :
           settings = [ DEFAULT_SETTINGS EXCEPT !.privateNoteMarker = m, !.privateDirs = d ]
    /\ currentLevel \in Level
    /\ lastEventTime = TickMs
    /\ now = TickMs
    /\ status = [ p \in Panels |-> IF p = 1 THEN "open" ELSE "unborn" ]
    /\ \E v \in AllViews : view = [ p \in Panels |-> IF p = 1 THEN v ELSE PlainView ]
    /\ layers = [ p \in Panels |-> 0 ]
    /\ installs = [ p \in Panels |-> 0 ]
    /\ marked = [ p \in Panels |-> FALSE ]
    /\ revealed = [ p \in Panels |-> 0 ]
    /\ bodyClasses = updateGlobalRevealStyle({}, currentLevel, settings)
    /\ calling = 0
    /\ pending = [ p \in Panels |-> 0 ]
    /\ timers = 0
    /\ saving = {}
    /\ last = Host

NextPolicy == activeLeafChange(1)

SpecPolicy == InitPolicy /\ [][NextPolicy]_vars

---------------------------------------------------------------------------
(* What the claims speak of *)

OpenPanels == { p \in Panels : status[p] = "open" }

\* a wrapped setState has been entered and the switch has not settled
InFlight == calling # 0 \/ \E p \in Panels : pending[p] > 0

NoneMarked == \A p \in OpenPanels : ~marked[p]

\* the same, one step later
InFlightNext == calling' # 0 \/ \E p \in Panels : pending'[p] > 0
NoneMarkedNext == \A p \in Panels : status'[p] = "open" => ~marked'[p]

\* no switch in flight, no deferred recomputation or settings handler pending
Quiescent ==
    /\ phase = "ready"
    /\ ~InFlight
    /\ timers = 0
    /\ saving = {}

\* the panel's tag set as the specification defines it: body tags plus
\* frontmatter tags, empty when the metadata is missing
TagSet(v) ==
    ( (IF v.cached /\ v.hasTags THEN { v.tags[i] : i \in 1..Len(v.tags) } ELSE {})
      \cup (IF v.cached /\ v.frontmatter = "list"
            THEN { v.fmTags[i] : i \in 1..Len(v.fmTags) } ELSE {}) ) \ { "" }

\* the specification's directory rule: the parent path starts with one of the
\* comma-separated prefixes
PrefixPrivate(privateDirs, path) ==
    \E i \in 1..Len(split(privateDirs)) :
        /\ split(privateDirs)[i] # EmptyStr
        /\ startsWith(path, split(privateDirs)[i])

\* elapsed time since the last activity, against the timeout in seconds
IdleFor == now - lastEventTime
TimeoutMs == settings.blurOnIdleTimeoutSeconds * MsPerSecond

---------------------------------------------------------------------------
(* C8: under RevealAll every panel is revealed, under HideAll and          *)
(* RevealHeadlines none is, whatever the view and the settings             *)

C8_AbsoluteLevels ==
    last.op = "activeLeafChange" =>
        /\ (currentLevel = RevealAll => ~last.threw /\ marked[1])
        /\ (currentLevel \in { HideAll, RevealHeadlines } => ~last.threw /\ ~marked[1])

\* a note tagged with the marker, in a private folder, revealed by RevealAll
C8_Witness ==
    /\ last.op = "activeLeafChange"
    /\ currentLevel = RevealAll
    /\ settings.privateNoteMarker = "#private"
    /\ "#private" \in TagSet(view[1])
    /\ contains(settings.privateDirs, view[1].parent)
    /\ marked[1]

---------------------------------------------------------------------------
(* C9: under HidePrivate, a document panel with a non-empty tag set and a  *)
(* non-empty marker is revealed exactly when the marker is not among its   *)
(* tags, whatever its folder                                               *)

C9_TagRule ==
    ( /\ last.op = "activeLeafChange"
      /\ currentLevel = HidePrivate
      /\ isMarkdownFileInfoView(view[1]) /\ view[1].editor
      /\ settings.privateNoteMarker # ""
      /\ TagSet(view[1]) # {} )
    => ( /\ ~last.threw
         /\ marked[1] = (settings.privateNoteMarker \notin TagSet(view[1])) )

---------------------------------------------------------------------------
(* C10: under HidePrivate, a document panel the tag rule does not apply to *)
(* is hidden exactly when its parent path starts with one of the prefixes  *)
(* in privateDirs (stated for the evaluations that return)                 *)

C10_DirectoryRule ==
    ( /\ last.op = "activeLeafChange"
      /\ ~last.threw
      /\ currentLevel = HidePrivate
      /\ view[1].file = "file"
      /\ (settings.privateNoteMarker = "" \/ TagSet(view[1]) = {}) )
    => marked[1] = ~PrefixPrivate(settings.privateDirs, view[1].parent)

---------------------------------------------------------------------------
(* C1: while a switch is in flight (from the before-callback until the     *)
(* switch has settled) no open panel is marked, in every interleaving in   *)
(* which no level is set during that window                                *)

C1_NoFlicker ==
    [][ ( /\ InFlightNext
          /\ last'.op # "setLevel"
          /\ (InFlight => NoneMarked) )
        => NoneMarkedNext ]_vars

---------------------------------------------------------------------------
(* C2: the after-callback fires exactly once when the switch has settled:  *)
(* on a synchronous return, a synchronous failure, a fulfilment and a      *)
(* rejection alike, and not before a pending promise settles               *)

C2_AfterOnSettle ==
    /\ (last.op = "wrapperResume" =>
            last.afters = IF last.arg = "promise" THEN 0 ELSE 1)
    /\ (last.op = "settle" => last.afters = 1)

---------------------------------------------------------------------------
(* C3: once the layout is ready and nothing is in flight or deferred,      *)
(* every hooked open panel whose evaluation succeeds is marked exactly     *)
(* when shouldRevealLeaf says so                                           *)

C3_QuiescentMarking ==
    Quiescent =>
        \A p \in OpenPanels :
            LET r == shouldRevealLeaf(currentLevel, settings, view[p])
            IN  (isHooked(layers[p]) /\ ~r.threw) => marked[p] = r.value

---------------------------------------------------------------------------
(* C4: when setLevel returns, the level is the one requested and every     *)
(* open panel whose evaluation succeeds is marked exactly when             *)
(* shouldRevealLeaf says so under the new level                            *)

C4_SetLevelRecomputes ==
    last.op = "setLevel" =>
        /\ currentLevel = last.arg
        /\ \A p \in OpenPanels :
               LET r == shouldRevealLeaf(currentLevel, settings, view[p])
               IN  ~r.threw => marked[p] = r.value

---------------------------------------------------------------------------
(* C5: a tick with a non-negative timeout, a level other than HideAll and  *)
(* an idle time of at least the timeout (equality included) sets the level *)
(* to HideAll and recomputes every panel and the body class                *)

C5_IdleLock ==
    [][ ( /\ last'.op = "checkIdleTimeout"
          /\ settings.blurOnIdleTimeoutSeconds >= 0
          /\ currentLevel # HideAll
          /\ IdleFor >= TimeoutMs )
        => ( /\ currentLevel' = HideAll
             /\ NoneMarkedNext
             /\ BlurAll \in bodyClasses' ) ]_vars

\* the tick that locked came exactly at the boundary, with a panel open
C5_Witness ==
    /\ last.op = "checkIdleTimeout"
    /\ last.arg = "lock"
    /\ settings.blurOnIdleTimeoutSeconds > 0
    /\ IdleFor = TimeoutMs
    /\ currentLevel = HideAll
    /\ OpenPanels # {}

---------------------------------------------------------------------------
(* C6: a tick changes neither the level nor any marking when the timeout   *)
(* is negative, the level is already HideAll, or the idle time is below    *)
(* the timeout                                                             *)

C6_IdleNoop ==
    [][ ( /\ last'.op = "checkIdleTimeout"
          /\ \/ settings.blurOnIdleTimeoutSeconds < 0
             \/ currentLevel = HideAll
             \/ IdleFor < TimeoutMs )
        => ( /\ currentLevel' = currentLevel
             /\ marked' = marked ) ]_vars

\* a tick that came one second before the timeout of two, with a revealed panel
C6_Witness ==
    /\ last.op = "checkIdleTimeout"
    /\ last.arg = "noop"
    /\ settings.blurOnIdleTimeoutSeconds > 0
    /\ IdleFor > 0
    /\ IdleFor < TimeoutMs
    /\ currentLevel = RevealAll
    /\ \E p \in OpenPanels : marked[p]

---------------------------------------------------------------------------
(* C7: whatever hook passes run, each panel is hooked at most once and     *)
(* carries at most one wrapper, and a switch runs the before-callback once *)

C7_HookIdempotent ==
    /\ \A p \in Panels : installs[p] <= 1 /\ layers[p] <= 1
    /\ (last.op = "wrapperEnter" => last.befores = 1)

\* a switch on a panel that the startup pass and an after-callback's pass
\* have both visited
C7_Witness ==
    /\ last.op = "wrapperEnter"
    /\ phase = "ready"
    /\ timers > 0
    /\ installs[calling] = 1
    /\ last.befores = 1

---------------------------------------------------------------------------
(* C11: under HidePrivate a panel that is not a document panel is          *)
(* revealed, whatever the private directories and the marker are           *)

C11_NonDocumentRevealed ==
    ( /\ last.op = "activeLeafChange"
      /\ currentLevel = HidePrivate
      /\ ~isMarkdownFileInfoView(view[1]) )
    => ( ~last.threw /\ marked[1] )

\* a side panel styled under HidePrivate with a marker and private directories set
C11_Witness ==
    /\ last.op = "activeLeafChange"
    /\ currentLevel = HidePrivate
    /\ ~isMarkdownFileInfoView(view[1])
    /\ settings.privateNoteMarker = "#private"
    /\ settings.privateDirs # EmptyStr
    /\ marked[1]

---------------------------------------------------------------------------
(* C12: under HidePrivate, evaluating a document panel whose metadata has  *)
(* no body-tag list, no frontmatter or no record at all raises nothing and *)
(* decides as for the tags that are there: the tag rule if any, else the   *)
(* directory rule                                                          *)

C12_MissingMetadata ==
    ( /\ last.op = "activeLeafChange"
      /\ currentLevel = HidePrivate
      /\ view[1].file = "file"
      /\ view[1].editor
      /\ (~view[1].cached \/ ~view[1].hasTags \/ view[1].frontmatter = "absent") )
    => ( /\ ~last.threw
         /\ marked[1] = IF settings.privateNoteMarker # "" /\ TagSet(view[1]) # {}
                        THEN settings.privateNoteMarker \notin TagSet(view[1])
                        ELSE dirRule(settings.privateDirs, view[1]).value )

---------------------------------------------------------------------------
(* C13: the caller of a wrapped setState observes the outcome of the       *)
(* original: the call fails if and only if the original threw (a promise   *)
(* is handed on as it is)                                                  *)

C13_HookTransparent ==
    last.op = "wrapperResume" => (last.threw = (last.arg = "throw"))

---------------------------------------------------------------------------
(* C14: once the layout is ready, between callbacks, the body carries at   *)
(* most one of the three level classes, the one of the current level, and  *)
(* none exactly when the level is HidePrivate                              *)

LevelClasses == { BlurAll, CssRevealAll, CssRevealHeadlines }

\* the class setClassToDocumentBody adds for a level
LevelClass(level) == setClassToDocumentBody({}, level)

C14_GlobalClass ==
    phase = "ready" => (bodyClasses \cap LevelClasses) = LevelClass(currentLevel)

---------------------------------------------------------------------------
(* C15: when the original setState is about to run (the wrapper has run    *)
(* the before-callback and nothing else has run since), the before-        *)
(* callback has run and no panel carries the reveal marking                *)

C15_BeforeFirst ==
    calling # 0 =>
        /\ last.op = "wrapperEnter"
        /\ last.befores >= 1
        /\ \A p \in Panels : ~marked[p]

\* the original is about to run on one panel while another open panel, which
\* the policy reveals, has been marked by an earlier pass
C15_Witness ==
    /\ calling # 0
    /\ phase = "ready"
    /\ timers = 0
    /\ \A p \in Panels : pending[p] = 0
    /\ \E p \in OpenPanels :
           /\ p # calling
           /\ revealed[p] > 0
           /\ shouldRevealLeaf(currentLevel, settings, view[p]).value

---------------------------------------------------------------------------
(* C16: this.revealed holds exactly the panels marked revealed: after a    *)
(* full recomputation pass each open panel that shouldRevealLeaf reveals   *)
(* is in it once and no other panel is, and after the before-callback it   *)
(* is empty                                                                *)

C16_RevealedRebuilt ==
    /\ ( (last.op \in { "onLayoutReady", "setLevel", "timerFires" } /\ ~last.threw)
         => \A p \in Panels :
                revealed[p] =
                    IF p \in OpenPanels
                       /\ shouldRevealLeaf(currentLevel, settings, view[p]).value
                    THEN 1 ELSE 0 )
    /\ ( last.op = "wrapperEnter" => \A p \in Panels : revealed[p] = 0 )

---------------------------------------------------------------------------
(* C17: after a switch has settled, by a result or by a failure, a full    *)
(* recomputation eventually runs and every open panel that                 *)
(* shouldRevealLeaf reveals carries the marking again (as long as the      *)
(* plugin stays loaded and a panel is open)                                *)

\* the switch has just settled in one of the four ways: the original returned
\* a result that is no promise or threw, or its promise has been fulfilled or
\* rejected
Settled ==
    \/ (last.op = "wrapperResume" /\ last.arg \in { "value", "throw" })
    \/ last.op = "settle"

AllRevealedMarked ==
    \A p \in OpenPanels :
        LET r == shouldRevealLeaf(currentLevel, settings, view[p])
        IN  (~r.threw /\ r.value) => marked[p]

C17_BoundedBlanking ==
    []( (Settled /\ phase = "ready")
        => <>( \/ (last.op = "timerFires" /\ AllRevealedMarked)
               \/ phase = "unloaded"
               \/ OpenPanels = {} ) )

---------------------------------------------------------------------------
(* C18: right after the layout-ready callback, after an active-leaf-change *)
(* notification and after a switch's after-callback, every open panel is   *)
(* hooked                                                                  *)

C18_AllHooked ==
    ( \/ last.op \in { "onLayoutReady", "activeLeafChange" }
      \/ (last.op \in { "wrapperResume", "settle" } /\ last.afters > 0) )
    => \A p \in OpenPanels : isHooked(layers[p])

---------------------------------------------------------------------------
(* C19: the level changes only in a level command, in an idle tick that    *)
(* locks (to HideAll) and in the layout-ready callback (to blurOnStartup); *)
(* switches, timers, activations, activity and settings edits leave it as  *)
(* it is, so that a lock stays through any activity until a command, or    *)
(* until the layout-ready callback if the lock came before it              *)

LevelStep ==
    \/ last'.op = "setLevel" /\ currentLevel' = last'.arg
    \/ last'.op = "checkIdleTimeout" /\ last'.arg = "lock" /\ currentLevel' = HideAll
    \/ last'.op = "onLayoutReady" /\ phase = "loaded"
                                  /\ currentLevel' = settings.blurOnStartup

C19_LevelFrame ==
    [][ currentLevel' # currentLevel => LevelStep ]_vars

\* the level as the claim states it: once HideAll, only a command ends it
C19_LockUntilCommand ==
    [][ /\ (currentLevel' # currentLevel => LevelStep)
        /\ ((currentLevel = HideAll /\ currentLevel' # HideAll) => last'.op = "setLevel")
      ]_vars

\* a pointer or key press after an idle lock, with the lock still in place
C19_Witness ==
    /\ phase = "ready"
    /\ last.op = "activity"
    /\ currentLevel = HideAll
    /\ settings.blurOnIdleTimeoutSeconds > 0
    /\ settings.blurOnStartup # HideAll
    /\ lastEventTime > TickMs

---------------------------------------------------------------------------
(* C20: a deferred recomputation whose timer fires after onunload changes  *)
(* no marking and nothing else, and one that fires after a panel has been  *)
(* closed does not touch that panel                                        *)

C20_TeardownGuard ==
    [][ last'.op = "timerFires" =>
            /\ (phase = "unloaded" => (marked' = marked /\ revealed' = revealed))
            /\ \A p \in Panels :
                   status[p] = "closed" =>
                       (marked'[p] = marked[p] /\ revealed'[p] = revealed[p])
      ]_vars

---------------------------------------------------------------------------
(* C21: every panel that carries the reveal marking is in this.revealed,   *)
(* so the before-callback, which clears the marking on the members of      *)
(* this.revealed, leaves no panel marked                                   *)

C21_RevealedCoversMarked ==
    /\ \A p \in Panels : marked[p] => revealed[p] > 0
    /\ (last.op = "wrapperEnter" => \A p \in Panels : ~marked[p])

\* two open panels, both marked after the deferred recomputation has run,
\* each recorded in this.revealed
C21_Witness ==
    /\ last.op = "timerFires"
    /\ OpenPanels = Panels
    /\ \A p \in Panels : marked[p] /\ revealed[p] > 0

====
